---- MODULE Spec2Model ----
(***************************************************************************)
(* Model of TwoCaptchaClient (src/src/two_captcha_client.js): the client   *)
(* configuration, the operations balance, captcha, decode,                 *)
(* decodeRecaptchaV2, decodeRecaptchaV3, decodeHCaptcha, load, report and  *)
(* stats, and the transport and byte-source collaborators they await.      *)
(*                                                                         *)
(* JavaScript values are encoded as tuples of strings so that any two of   *)
(* them can be compared: a JS string whose characters matter (a response   *)
(* body, image data) is the tuple of its characters, a string that is only *)
(* compared as a whole (a message, a method name) is a one-element tuple,  *)
(* the value undefined and a non-string API key are one-element tuples     *)
(* holding a token, a Buffer is the token "Buffer" followed by its bytes.  *)
(* Object literals are functions from field names to values.               *)
(***************************************************************************)
EXTENDS Integers, Sequences, FiniteSets, TLC

VARIABLES
  key,          \* this.key
  timeout,      \* this.timeout
  polling,      \* this.polling
  throwErrors,  \* this.throwErrors
  clock,        \* Date.now()
  pc,           \* per call: the await the call is suspended at, or idle / done
  op,           \* per call: the method that was called
  options,      \* per call: the options argument while it is still live
  startedAt,    \* per call: const startedAt
  cap,          \* per call: let decodedCaptcha
  wakeAt,       \* per call: the time the pending setTimeout is due
  req,          \* per call: the request last handed to HTTPRequest.request
  res,          \* per call: the answer of the transport to that request
  nSubmits,     \* per call: requests sent to action 'in'
  nPolls,       \* per call: requests sent to action 'res' with action=get
  warned,       \* per call: the message last written with console.warn
  sawError,     \* per call: a response was classified as a remote error
  allPending,   \* per call: every poll so far answered "not solved yet"
  outcome       \* per call: what the call returned or threw

vars == <<key, timeout, polling, throwErrors, clock, pc, op, options, startedAt,
          cap, wakeAt, req, res, nSubmits, nPolls, warned, sawError,
          allPending, outcome>>

config == <<key, timeout, polling, throwErrors>>

-----------------------------------------------------------------------------
(* JavaScript values *)

Undefined == <<"undefined">>

\* a key that is not a string (the number 123)
NumberKey == <<"number:123">>

\* typeof (v) === 'string'
IsString(v) == v # Undefined /\ v # NumberKey /\ (v = <<>> \/ v[1] # "Buffer")

\* the truthiness of a string, a Buffer or undefined
Truthy(v) == v # Undefined /\ v # <<>>

\* options.f of an object literal
Get(o, f) == IF f \in DOMAIN o THEN o[f] ELSE Undefined

\* { ...a, ...b }
Spread(a, b) ==
  [f \in DOMAIN a \cup DOMAIN b |-> IF f \in DOMAIN b THEN b[f] ELSE a[f]]

\* delete o.f for every f of fs
Delete(o, fs) == [f \in DOMAIN o \ fs |-> o[f]]

EmptyObject == [f \in {} |-> Undefined]

\* the value of a local that is no longer read
Dead == [f \in {"dead"} |-> Undefined]

Max(a, b) == IF a > b THEN a ELSE b

\* the index of the first sep in s from position i on, 0 when there is none
RECURSIVE IndexFrom(_, _, _)
IndexFrom(s, sep, i) ==
  IF i > Len(s) THEN 0
  ELSE IF s[i] = sep THEN i
  ELSE IndexFrom(s, sep, i + 1)

\* s.split('|', 2): the list of at most two fields
Split2(s) ==
  LET i == IndexFrom(s, "|", 1) IN
    IF i = 0 THEN <<s>>
    ELSE LET rest == SubSeq(s, i + 1, Len(s))
             j    == IndexFrom(rest, "|", 1)
         IN <<SubSeq(s, 1, i - 1),
              IF j = 0 THEN rest ELSE SubSeq(rest, 1, j - 1)>>

\* s.split('|', 2)[1]
SplitField1(s) == IF Len(Split2(s)) >= 2 THEN Split2(s)[2] ELSE Undefined

\* s.includes(sub)
Includes(s, sub) ==
  \E i \in 1..(Len(s) - Len(sub) + 1) : SubSeq(s, i, i + Len(sub) - 1) = sub

-----------------------------------------------------------------------------
(* Response bodies of the remote service *)

OK_A               == <<"O","K","|","A">>
OK_B_C             == <<"O","K","|","B","|","C">>
OK_EMPTY           == <<"O","K","|">>
OK_BARE            == <<"O","K">>
EMPTY_BODY         == <<>>
CAPCHA_NOT_READY   == <<"C","A","P","C","H","A","_","N","O","T","_","R","E","A","D","Y">>
ERROR_ZERO_BALANCE == <<"E","R","R","O","R","_","Z","E","R","O","_","B","A","L","A","N","C","E">>
IP_BANNED          == <<"I","P","_","B","A","N","N","E","D">>
ERROR_PIPE_A       == <<"E","R","R","O","R","|","A">>
OK_REPORT_RECORDED == <<"O","K","_","R","E","P","O","R","T","_","R","E","C","O","R","D","E","D">>

ERROR == <<"E","R","R","O","R">>

\* what the transport may answer to a submission (POST in)
SubmitBodies == {OK_A, OK_B_C, OK_BARE, EMPTY_BODY, ERROR_ZERO_BALANCE}

\* what the transport may answer to a poll (GET res, action=get)
PollBodies == {OK_A, OK_B_C, OK_EMPTY, OK_BARE, EMPTY_BODY, CAPCHA_NOT_READY,
               ERROR_ZERO_BALANCE, ERROR_PIPE_A}

\* what the transport may answer to balance, load, report and stats
OtherBodies == {OK_REPORT_RECORDED, OK_A, OK_BARE, EMPTY_BODY, CAPCHA_NOT_READY,
                ERROR_ZERO_BALANCE, IP_BANNED, ERROR_PIPE_A}

\* the transport rejected the request (no body)
Rejected == <<"rejected">>
NoResponse == <<"none">>

\* constants.errors: remote error code -> message
NotSolvedYet == <<"Your captcha is not solved yet.">>

errors ==
  [b \in {CAPCHA_NOT_READY, ERROR_ZERO_BALANCE, IP_BANNED} |->
     CASE b = CAPCHA_NOT_READY   -> NotSolvedYet
       [] b = ERROR_ZERO_BALANCE -> <<"You don't have funds on your account.">>
       [] b = IP_BANNED          -> <<"Your IP address is banned.">>]

CaptchaTimeout == <<"Captcha timeout">>
TransportError == <<"TransportError">>
LoaderError    == <<"LoaderError">>
NoMessage      == <<"none">>

\* `Unknown 2Captcha error: ${body}`
UnknownError(body) == <<"Unknown 2Captcha error: ">> \o body

-----------------------------------------------------------------------------
(* Bounds and input domains *)

\* the transport and the loader answer at once or after this many ms
MaxNetDelay == 1

\* a timer fires on time or this many ms late
MaxJitter == 1

\* the clock is not followed beyond this time
MaxClock == 80

Runs == {1, 2}

Keys     == {<<"k","1">>, NumberKey}
Timeouts == {10, 20}
Pollings == {5, 10, 30}

\* bytes of an image, as the characters of a binary string
ImageBytes == {<<>>, <<"A">>}

Buffer(bytes) == <<"Buffer">> \o bytes
BytesOf(buffer) == Tail(buffer)

\* the options a caller passes to decode
DecodeOptions ==
  { [f \in fs |->
       CASE f = "base64"  -> b
         [] f = "buffer"  -> Buffer(<<"A">>)
         [] f = "path"    -> <<"/img.png">>
         [] f = "url"     -> <<"http://host/img.png">>
         [] f = "key"     -> <<"x">>
         [] f = "soft_id" -> 1] :
     fs \in { s \cup e : s \in SUBSET {"base64", "buffer", "path", "url"},
                         e \in {{}, {"key", "soft_id"}} },
     b \in {<<>>, <<"Q","Q","=","=">>} }

\* the options a caller passes to decodeRecaptchaV2 and decodeRecaptchaV3
RecaptchaOptions ==
  { [f \in fs |->
       CASE f = "googlekey" -> g
         [] f = "pageurl"   -> p
         [] f = "invisible" -> <<"true">>
         [] f = "action"    -> <<"login">>] :
     fs \in SUBSET {"googlekey", "pageurl"} \cup
              {{"googlekey", "pageurl", "invisible", "action"}},
     g \in {<<>>, <<"6Le">>}, p \in {<<>>, <<"http://page">>} }

\* the options a caller passes to decodeHCaptcha
HCaptchaOptions ==
  { [f \in fs |->
       CASE f = "sitekey"   -> g
         [] f = "pageurl"   -> p
         [] f = "invisible" -> <<"true">>] :
     fs \in SUBSET {"sitekey", "pageurl"} \cup {{"sitekey", "pageurl", "invisible"}},
     g \in {<<>>, <<"10000000-ffff">>}, p \in {<<>>, <<"http://page">>} }

CaptchaIds == {<<"A">>, <<"B">>}

\* date.toISOString() of the dates passed to stats
IsoDates == {<<"2","0","2","0","-","0","1","-","3","1","T","2","3",":","5","9",":",
               "5","9",".","0","0","0","Z">>}

-----------------------------------------------------------------------------
(* Helpers of the client *)

\* the fixed partner identifier sent with every request
SOFT_ID == 2386

\* the floor of the sleep between polls of the interactive kinds
MIN_SLEEP == 10

\* new Captcha(): no field is set
NewCaptcha == [id |-> Undefined, text |-> Undefined, apiResponse |-> Undefined]

\* what a statement that may throw or log did
Quiet == [thrown |-> FALSE, error |-> NoMessage, warn |-> NoMessage]

\* _throwError without its first line: "not solved yet" is treated like any
\* other message
_throwErrorAlways(message) ==
  IF throwErrors
    THEN [thrown |-> TRUE, error |-> message, warn |-> NoMessage]
    ELSE [thrown |-> FALSE, error |-> NoMessage, warn |-> message]

\* _throwError(message)
_throwError(message) ==
  IF message = NotSolvedYet THEN Quiet
  ELSE IF throwErrors
    THEN [thrown |-> TRUE, error |-> message, warn |-> NoMessage]
    ELSE [thrown |-> FALSE, error |-> NoMessage, warn |-> message]

\* _validateResponse with its two tests in the other order
ResponseMessageErrorFirst(body) ==
  IF body = <<>> \/ Includes(body, ERROR) THEN UnknownError(body)
  ELSE IF body \in DOMAIN errors THEN errors[body]
  ELSE NoMessage

\* the message _validateResponse finds for a body, NoMessage for a valid one
ResponseMessage(body) ==
  IF body \in DOMAIN errors THEN errors[body]
  ELSE IF body = <<>> \/ Includes(body, ERROR) THEN UnknownError(body)
  ELSE NoMessage

\* _validateResponse(body)
_validateResponse(body) ==
  IF ResponseMessage(body) = NoMessage THEN Quiet
  ELSE _throwError(ResponseMessage(body))

\* _request with the spread last: { key, soft_id, ...payload }
_requestPayloadLast(action, method, payload) ==
  [action  |-> action,
   method  |-> method,
   timeout |-> timeout,
   payload |-> Spread([f \in {"key", "soft_id"} |->
                         IF f = "key" THEN key ELSE SOFT_ID], payload)]

\* the argument _request hands to HTTPRequest.request
_request(action, method, payload) ==
  [action  |-> action,
   method  |-> method,
   timeout |-> timeout,
   payload |-> Spread(payload, [f \in {"key", "soft_id"} |->
                                  IF f = "key" THEN key ELSE SOFT_ID])]

NoRequest == [action |-> "none", method |-> "none", timeout |-> 0,
              payload |-> EmptyObject]

\* the payload _upload builds from its options
UploadArgs(o) ==
  LET body   == IF Truthy(Get(o, "base64"))
                  THEN [f \in {"body"} |-> o["base64"]] ELSE EmptyObject
      method == [f \in {"method"} |->
                   IF Truthy(Get(o, "method")) THEN o["method"] ELSE <<"base64">>]
  IN Delete(Spread(Spread(body, method), o), {"base64", "buffer", "path", "url"})

\* the request _upload sends
_upload(o) == _request("in", "post", UploadArgs(o))

\* captcha polling the handle kept in one slot of the client, which the call
\* whose sleep began last has overwritten
PollRequestSharedSlot(captchaId) ==
  _request("res", "get",
           [f \in {"id", "action"} |->
              IF f = "id"
                THEN cap[CHOOSE q \in Runs : \A p \in Runs : wakeAt[q] >= wakeAt[p]].id
                ELSE <<"get">>])

\* the loop submitting again where it should poll
PollRequestResubmits(captchaId) ==
  _request("in", "post",
           [f \in {"id", "action"} |-> IF f = "id" THEN captchaId ELSE <<"get">>])

\* the request captcha(captchaId) sends
PollRequest(captchaId) ==
  _request("res", "get",
           [f \in {"id", "action"} |-> IF f = "id" THEN captchaId ELSE <<"get">>])

\* captcha taking the first field: res.split('|', 2)[0]
captchaFirstField(captchaId, body) ==
  [id |-> captchaId, apiResponse |-> body, text |-> Split2(body)[1]]

\* captcha taking the whole response for the solution: no split
captchaWholeBody(captchaId, body) ==
  [id |-> captchaId, apiResponse |-> body, text |-> body]

\* the Captcha that captcha(captchaId) builds from the response
captcha(captchaId, body) ==
  [id |-> captchaId, apiResponse |-> body, text |-> SplitField1(body)]

\* _upload taking the second field for the solution as well
UploadedWithText(body) ==
  [NewCaptcha EXCEPT !.id = SplitField1(body), !.text = SplitField1(body)]

\* the Captcha that _upload builds from the response
Uploaded(body) == [NewCaptcha EXCEPT !.id = SplitField1(body)]

\* the character codes of the image bytes
Ord(c) == CASE c = "A" -> 65 [] c = "B" -> 66

Base64Alphabet ==
  <<"A","B","C","D","E","F","G","H","I","J","K","L","M","N","O","P",
    "Q","R","S","T","U","V","W","X","Y","Z","a","b","c","d","e","f",
    "g","h","i","j","k","l","m","n","o","p","q","r","s","t","u","v",
    "w","x","y","z","0","1","2","3","4","5","6","7","8","9","+","/">>

\* buffer.toString('base64')
RECURSIVE Base64(_)
Base64(b) ==
  IF Len(b) = 0 THEN <<>>
  ELSE LET b1 == Ord(b[1])
           b2 == IF Len(b) >= 2 THEN Ord(b[2]) ELSE 0
           b3 == IF Len(b) >= 3 THEN Ord(b[3]) ELSE 0
           n  == b1 * 65536 + b2 * 256 + b3
       IN << Base64Alphabet[(n \div 262144) + 1],
             Base64Alphabet[((n \div 4096) % 64) + 1],
             IF Len(b) >= 2 THEN Base64Alphabet[((n \div 64) % 64) + 1] ELSE "=",
             IF Len(b) >= 3 THEN Base64Alphabet[(n % 64) + 1] ELSE "=" >>
          \o Base64(SubSeq(b, 4, Len(b)))

\* the branch _loadCaptcha takes
LoadBranch(o) ==
  IF Truthy(Get(o, "base64")) THEN "base64"
  ELSE IF Truthy(Get(o, "buffer")) THEN "buffer"
  ELSE IF Truthy(Get(o, "path")) THEN "path"
  ELSE IF Truthy(Get(o, "url")) THEN "url"
  ELSE "none"

\* the sleep of the interactive kinds without its floor
SleepMsNoFloor(o) == polling

\* the duration of the sleep between polls
SleepMs(o) == IF o = "decode" THEN polling ELSE Max(polling, MIN_SLEEP)

\* the deadline check with its operands swapped
TimedOutSwapped(now, started) == started - now > timeout

\* the loop without its deadline check
TimedOutNever(now, started) == FALSE

\* the deadline check with >= for >
TimedOutAtDeadline(now, started) == now - started >= timeout

\* Date.now() - startedAt > this.timeout
TimedOut(now, started) == now - started > timeout

\* the upload options decodeRecaptchaV2 builds
RecaptchaV2Upload(o) ==
  [f \in {"method", "googlekey", "pageurl", "invisible", "enterprise"} |->
     CASE f = "method"     -> <<"userrecaptcha">>
       [] f = "googlekey"  -> Get(o, "googlekey")
       [] f = "pageurl"    -> Get(o, "pageurl")
       [] f = "invisible"  -> IF Truthy(Get(o, "invisible")) THEN 1 ELSE 0
       [] f = "enterprise" -> IF Truthy(Get(o, "enterprise")) THEN 1 ELSE 0]

\* the upload options decodeRecaptchaV3 builds
RecaptchaV3Upload(o) ==
  [f \in {"method", "googlekey", "pageurl", "version", "action", "enterprise"} |->
     CASE f = "method"     -> <<"userrecaptcha">>
       [] f = "googlekey"  -> Get(o, "googlekey")
       [] f = "pageurl"    -> Get(o, "pageurl")
       [] f = "version"    -> <<"v3">>
       [] f = "action"     -> IF Truthy(Get(o, "action")) THEN o["action"] ELSE <<>>
       [] f = "enterprise" -> IF Truthy(Get(o, "enterprise")) THEN 1 ELSE 0]

\* the upload options decodeHCaptcha builds
HCaptchaUpload(o) ==
  [f \in {"method", "sitekey", "pageurl", "invisible"} |->
     CASE f = "method"    -> <<"hcaptcha">>
       [] f = "sitekey"   -> Get(o, "sitekey")
       [] f = "pageurl"   -> Get(o, "pageurl")
       [] f = "invisible" -> IF Truthy(Get(o, "invisible")) THEN 1 ELSE 0]

-----------------------------------------------------------------------------
(* Outcomes of a call *)

NoOutcome == [kind |-> "none", error |-> NoMessage, cap |-> NewCaptcha,
              value |-> Undefined]

\* the call threw (its promise was rejected with) an Error with this message
Threw(message) == [NoOutcome EXCEPT !.kind = "throw", !.error = message]

\* the call returned a Captcha
ReturnedCaptcha(c) == [NoOutcome EXCEPT !.kind = "captcha", !.cap = c]

\* the call returned undefined
ReturnedUndefined == [NoOutcome EXCEPT !.kind = "undefined"]

\* the call returned a response body
ReturnedBody(body) == [NoOutcome EXCEPT !.kind = "body", !.value = body]

\* the call returned a boolean
ReturnedBoolean(b) == [NoOutcome EXCEPT !.kind = IF b THEN "true" ELSE "false"]

\* a body is classified as a remote error ("not solved yet" is none)
IsRemoteError(body) ==
  ResponseMessage(body) # NoMessage /\ ResponseMessage(body) # NotSolvedYet

-----------------------------------------------------------------------------
(* Steps shared by the operations *)

\* the later of two console.warn messages, either of which may be none
Last(w1, w2) == IF w2 = NoMessage THEN w1 ELSE w2

\* the call ends with outcome out, after logging message w
Finish(r, out, w) ==
  /\ pc' = [pc EXCEPT ![r] = "done"]
  /\ outcome' = [outcome EXCEPT ![r] = out]
  /\ warned' = [warned EXCEPT ![r] = Last(@, w)]

\* the call hands request q to the transport and awaits the answer at label l
Send(r, q, l, w) ==
  /\ pc' = [pc EXCEPT ![r] = l]
  /\ req' = [req EXCEPT ![r] = q]
  /\ nSubmits' = [nSubmits EXCEPT ![r] = IF q.action = "in" THEN @ + 1 ELSE @]
  /\ nPolls' = [nPolls EXCEPT ![r] =
                  IF q.action = "res" /\ Get(q.payload, "action") = <<"get">>
                    THEN @ + 1 ELSE @]
  /\ warned' = [warned EXCEPT ![r] = Last(@, w)]
  /\ outcome' = outcome

\* the call starts method m with argument o
Enter(r, m, o) ==
  /\ pc[r] = "idle"
  /\ op' = [op EXCEPT ![r] = m]
  /\ options' = [options EXCEPT ![r] = o]
  /\ startedAt' = [startedAt EXCEPT ![r] = clock]

\* while (!decodedCaptcha.text) await this._sleep(...)
Sleep(r, now) ==
  /\ pc' = [pc EXCEPT ![r] = "sleeping"]
  /\ wakeAt' = [wakeAt EXCEPT ![r] = now + SleepMs(op[r])]

\* the answer of the transport to the request in flight, after some time
Answer(r, body, d) ==
  /\ clock + d <= MaxClock
  /\ clock' = clock + d
  /\ res' = [res EXCEPT ![r] = body]
  /\ sawError' = [sawError EXCEPT ![r] = @ \/ (body # Rejected /\ IsRemoteError(body))]

-----------------------------------------------------------------------------
(* The operations *)

\* decode(options), up to its first await of a collaborator
decode(r, o) ==
  LET keyCheck == IF ~IsString(key)
                    THEN _throwError(<<"2Captcha key must be a string">>) ELSE Quiet
      noImage  == _throwError(<<"No image data received">>)
      branch   == LoadBranch(o)
      base64   == CASE branch = "base64" -> o["base64"]
                    [] branch = "buffer" -> Base64(BytesOf(o["buffer"]))
                    [] OTHER             -> Undefined
      args     == Spread(o, [f \in {"base64"} |-> base64])
  IN /\ Enter(r, "decode", o)
     /\ IF keyCheck.thrown
          THEN Finish(r, Threw(keyCheck.error), NoMessage)
               /\ UNCHANGED <<req, nSubmits, nPolls>>
        ELSE IF branch \in {"path", "url"}
          THEN /\ pc' = [pc EXCEPT ![r] = "loading"]
               /\ warned' = [warned EXCEPT ![r] = Last(@, keyCheck.warn)]
               /\ UNCHANGED <<req, nSubmits, nPolls, outcome>>
        ELSE IF branch = "none" /\ noImage.thrown
          THEN Finish(r, Threw(noImage.error), keyCheck.warn)
               /\ UNCHANGED <<req, nSubmits, nPolls>>
        ELSE Send(r, _upload(args), "submitting",
                  Last(keyCheck.warn, IF branch = "none" THEN noImage.warn ELSE NoMessage))
     /\ UNCHANGED <<config, clock, cap, wakeAt, res, sawError, allPending>>

\* decode: readFileAsync or HTTPRequest.openDataURL answered, then _upload
LoadDone(r) ==
  /\ pc[r] = "loading"
  /\ \E d \in {0, MaxNetDelay} :
       /\ clock + d <= MaxClock
       /\ clock' = clock + d
       /\ \/ /\ Finish(r, Threw(LoaderError), NoMessage)
             /\ UNCHANGED <<req, nSubmits, nPolls>>
          \/ \E bytes \in ImageBytes :
               Send(r, _upload(Spread(options[r],
                                      [f \in {"base64"} |-> Base64(bytes)])),
                    "submitting", NoMessage)
  /\ UNCHANGED <<config, op, options, startedAt, cap, wakeAt, res, sawError,
                 allPending>>

\* decodeRecaptchaV2(options), up to the await of _upload
decodeRecaptchaV2(r, o) ==
  LET g == IF Get(o, "googlekey") = <<>>
             THEN _throwError(<<"Missing googlekey parameter">>) ELSE Quiet
      p == IF Get(o, "pageurl") = <<>>
             THEN _throwError(<<"Missing pageurl parameter">>) ELSE Quiet
  IN /\ Enter(r, "decodeRecaptchaV2", o)
     /\ IF g.thrown \/ p.thrown
          THEN Finish(r, Threw(IF g.thrown THEN g.error ELSE p.error), NoMessage)
               /\ UNCHANGED <<req, nSubmits, nPolls>>
          ELSE Send(r, _upload(RecaptchaV2Upload(o)), "submitting",
                    Last(g.warn, p.warn))
     /\ UNCHANGED <<config, clock, cap, wakeAt, res, sawError, allPending>>

\* decodeRecaptchaV3(options), up to the await of _upload
decodeRecaptchaV3(r, o) ==
  LET g == IF Get(o, "googlekey") = <<>>
             THEN _throwError(<<"Missing googlekey parameter">>) ELSE Quiet
      p == IF Get(o, "pageurl") = <<>>
             THEN _throwError(<<"Missing pageurl parameter">>) ELSE Quiet
  IN /\ Enter(r, "decodeRecaptchaV3", o)
     /\ IF g.thrown \/ p.thrown
          THEN Finish(r, Threw(IF g.thrown THEN g.error ELSE p.error), NoMessage)
               /\ UNCHANGED <<req, nSubmits, nPolls>>
          ELSE Send(r, _upload(RecaptchaV3Upload(o)), "submitting",
                    Last(g.warn, p.warn))
     /\ UNCHANGED <<config, clock, cap, wakeAt, res, sawError, allPending>>

\* decodeHCaptcha(options), up to the await of _upload
decodeHCaptcha(r, o) ==
  LET g == IF Get(o, "sitekey") = <<>>
             THEN _throwError(<<"Missing sitekey parameter">>) ELSE Quiet
      p == IF Get(o, "pageurl") = <<>>
             THEN _throwError(<<"Missing pageurl parameter">>) ELSE Quiet
  IN /\ Enter(r, "decodeHCaptcha", o)
     /\ IF g.thrown \/ p.thrown
          THEN Finish(r, Threw(IF g.thrown THEN g.error ELSE p.error), NoMessage)
               /\ UNCHANGED <<req, nSubmits, nPolls>>
          ELSE Send(r, _upload(HCaptchaUpload(o)), "submitting",
                    Last(g.warn, p.warn))
     /\ UNCHANGED <<config, clock, cap, wakeAt, res, sawError, allPending>>

\* _upload after its await of _request: both validations, the Captcha with the
\* id, and the first test of the polling loop
SubmitResponse(r) ==
  /\ pc[r] = "submitting"
  /\ \E body \in SubmitBodies \cup {Rejected}, d \in {0, MaxNetDelay} :
       /\ Answer(r, body, d)
       /\ IF body = Rejected
            THEN Finish(r, Threw(TransportError), NoMessage)
                 /\ UNCHANGED <<cap, wakeAt>>
          ELSE LET v1 == _validateResponse(body)
                   v2 == _validateResponse(body)
               IN IF v1.thrown \/ v2.thrown
                    THEN Finish(r, Threw(IF v1.thrown THEN v1.error ELSE v2.error),
                                v1.warn)
                         /\ UNCHANGED <<cap, wakeAt>>
                    ELSE /\ cap' = [cap EXCEPT ![r] = Uploaded(body)]
                         /\ warned' = [warned EXCEPT ![r] = Last(Last(@, v1.warn), v2.warn)]
                         /\ IF ~Truthy(Uploaded(body).text)
                              THEN Sleep(r, clock + d) /\ outcome' = outcome
                              ELSE /\ pc' = [pc EXCEPT ![r] = "done"]
                                   /\ outcome' = [outcome EXCEPT ![r] =
                                                    ReturnedCaptcha(Uploaded(body))]
                                   /\ wakeAt' = wakeAt
  /\ options' = [options EXCEPT ![r] = Dead]
  /\ UNCHANGED <<config, op, startedAt, req, nSubmits, nPolls, allPending>>

\* the polling loop after its sleep: the deadline check, then captcha(id) up to
\* its await of _request
Wake(r) ==
  /\ pc[r] = "sleeping"
  /\ \E j \in {0, MaxJitter} :
       LET now == Max(clock, wakeAt[r]) + j
           t   == _throwError(CaptchaTimeout)
       IN /\ now <= MaxClock
          /\ clock' = now
          /\ IF TimedOut(now, startedAt[r])
               THEN /\ Finish(r, IF t.thrown THEN Threw(t.error)
                                             ELSE ReturnedUndefined, t.warn)
                    /\ UNCHANGED <<req, nSubmits, nPolls>>
               ELSE Send(r, PollRequest(cap[r].id), "polling", NoMessage)
  /\ UNCHANGED <<config, op, options, startedAt, cap, wakeAt, res, sawError,
                 allPending>>

\* captcha(captchaId) called by the user, up to its await of _request
captchaCall(r, captchaId) ==
  /\ Enter(r, "captcha", EmptyObject)
  /\ Send(r, PollRequest(captchaId), "polling", NoMessage)
  /\ UNCHANGED <<config, clock, cap, wakeAt, res, sawError, allPending>>

\* captcha(captchaId) after its await of _request, and the test of the polling
\* loop that called it
PollResponse(r) ==
  /\ pc[r] = "polling"
  /\ \E body \in PollBodies \cup {Rejected}, d \in {0, MaxNetDelay} :
       /\ Answer(r, body, d)
       /\ allPending' = [allPending EXCEPT ![r] = @ /\ body = CAPCHA_NOT_READY]
       /\ IF body = Rejected
            THEN Finish(r, Threw(TransportError), NoMessage)
                 /\ UNCHANGED <<cap, wakeAt>>
          ELSE LET v == _validateResponse(body)
                   c == captcha(req[r].payload["id"], body)
               IN IF v.thrown
                    THEN Finish(r, Threw(v.error), NoMessage)
                         /\ UNCHANGED <<cap, wakeAt>>
                    ELSE /\ cap' = [cap EXCEPT ![r] = c]
                         /\ IF op[r] = "captcha" \/ Truthy(c.text)
                              THEN Finish(r, ReturnedCaptcha(c), v.warn)
                                   /\ wakeAt' = wakeAt
                              ELSE /\ Sleep(r, clock + d)
                                   /\ warned' = [warned EXCEPT ![r] = Last(@, v.warn)]
                                   /\ outcome' = outcome
  /\ UNCHANGED <<config, op, options, startedAt, req, nSubmits, nPolls>>

\* balance(), up to its await of _request
balance(r) ==
  /\ Enter(r, "balance", EmptyObject)
  /\ Send(r, _request("res", "get", [f \in {"action"} |-> <<"getbalance">>]),
          "requesting", NoMessage)
  /\ UNCHANGED <<config, clock, cap, wakeAt, res, sawError, allPending>>

\* load(), up to its await of _request
load(r) ==
  /\ Enter(r, "load", EmptyObject)
  /\ Send(r, _request("load", "get", EmptyObject), "requesting", NoMessage)
  /\ UNCHANGED <<config, clock, cap, wakeAt, res, sawError, allPending>>

\* report(captchaId, bad), up to its await of _request
report(r, captchaId, bad) ==
  /\ Enter(r, "report", EmptyObject)
  /\ Send(r, _request("res", "get",
                      [f \in {"action", "id"} |->
                         IF f = "id" THEN captchaId
                         ELSE IF bad THEN <<"reportbad">> ELSE <<"reportgood">>]),
          "requesting", NoMessage)
  /\ UNCHANGED <<config, clock, cap, wakeAt, res, sawError, allPending>>

\* stats(date), up to its await of _request
stats(r, iso) ==
  /\ Enter(r, "stats", EmptyObject)
  /\ Send(r, _request("res", "get",
                      [f \in {"action", "date"} |->
                         IF f = "date" THEN SubSeq(iso, 1, 10) ELSE <<"getstats">>]),
          "requesting", NoMessage)
  /\ UNCHANGED <<config, clock, cap, wakeAt, res, sawError, allPending>>

\* report accepting every body that starts with OK
ResultPrefix(m, body) ==
  IF m = "report"
    THEN ReturnedBoolean(Len(body) >= 2 /\ SubSeq(body, 1, 2) = <<"O", "K">>)
  ELSE ReturnedBody(body)

\* what balance, load, report and stats return for a body
Result(m, body) ==
  IF m = "report" THEN ReturnedBoolean(body = OK_REPORT_RECORDED)
  ELSE ReturnedBody(body)

\* balance, load, report and stats after their await of _request
RequestResponse(r) ==
  /\ pc[r] = "requesting"
  /\ \E body \in OtherBodies \cup {Rejected}, d \in {0, MaxNetDelay} :
       /\ Answer(r, body, d)
       /\ IF body = Rejected
            THEN Finish(r, Threw(TransportError), NoMessage)
          ELSE LET v == _validateResponse(body)
               IN IF v.thrown
                    THEN Finish(r, Threw(v.error), NoMessage)
                    ELSE Finish(r, Result(op[r], body), v.warn)
  /\ UNCHANGED <<config, op, options, startedAt, cap, wakeAt, req, nSubmits,
                 nPolls, allPending>>

-----------------------------------------------------------------------------
(* Specification *)

\* new TwoCaptchaClient(key, {timeout, polling, throwErrors}) returned: with a
\* key that is no string the constructor throws when throwErrors is set
Constructed ==
  /\ key \in Keys
  /\ timeout \in Timeouts
  /\ polling \in Pollings
  /\ throwErrors \in BOOLEAN
  /\ ~(~IsString(key) /\ _throwError(<<"2Captcha key must be a string">>).thrown)

\* the calls of `active` are about to be made on a constructed client
InitWith(active) ==
  /\ Constructed
  /\ clock = 0
  /\ pc = [r \in Runs |-> IF r \in active THEN "idle" ELSE "off"]
  /\ op = [r \in Runs |-> "none"]
  /\ options = [r \in Runs |-> EmptyObject]
  /\ startedAt = [r \in Runs |-> 0]
  /\ cap = [r \in Runs |-> NewCaptcha]
  /\ wakeAt = [r \in Runs |-> 0]
  /\ req = [r \in Runs |-> NoRequest]
  /\ res = [r \in Runs |-> NoResponse]
  /\ nSubmits = [r \in Runs |-> 0]
  /\ nPolls = [r \in Runs |-> 0]
  /\ warned = [r \in Runs |-> NoMessage]
  /\ sawError = [r \in Runs |-> FALSE]
  /\ allPending = [r \in Runs |-> TRUE]
  /\ outcome = [r \in Runs |-> NoOutcome]

Init == InitWith({1})

Next ==
  \E r \in Runs :
    \/ \E o \in DecodeOptions : decode(r, o)
    \/ LoadDone(r)
    \/ \E o \in RecaptchaOptions : decodeRecaptchaV2(r, o)
    \/ \E o \in RecaptchaOptions : decodeRecaptchaV3(r, o)
    \/ \E o \in HCaptchaOptions : decodeHCaptcha(r, o)
    \/ SubmitResponse(r)
    \/ Wake(r)
    \/ \E id \in CaptchaIds : captchaCall(r, id)
    \/ PollResponse(r)
    \/ balance(r)
    \/ load(r)
    \/ \E id \in CaptchaIds, bad \in BOOLEAN : report(r, id, bad)
    \/ \E iso \in IsoDates : stats(r, iso)
    \/ RequestResponse(r)

Spec == Init /\ [][Next]_vars

\* the event loop runs every continuation that is ready: the transport and the
\* loader answer, and a timer that is due fires
FairSpec == Spec /\ WF_vars(Next)

\* Two calls that wait for a solution are in flight on one client: each await
\* of one call lets the other call run. The inputs are the ones that make the
\* two calls differ (their kinds, their handles, their answers).
ConcDecodeOptions == {[f \in {"base64"} |-> <<"Q","Q","=","=">>]}

ConcHCaptchaOptions ==
  {[f \in {"sitekey", "pageurl"} |->
      IF f = "sitekey" THEN <<"10000000-ffff">> ELSE <<"http://page">>]}

ConcSubmitBodies == {OK_A, OK_B_C, ERROR_ZERO_BALANCE}

ConcPollBodies == {OK_A, OK_B_C, CAPCHA_NOT_READY}

ConcInit ==
  /\ InitWith(Runs)
  /\ IsString(key)
  /\ timeout = 10
  /\ polling = 5

ConcNext ==
  \E r \in Runs :
    \/ \E o \in ConcDecodeOptions : decode(r, o)
    \/ \E o \in ConcHCaptchaOptions : decodeHCaptcha(r, o)
    \/ SubmitResponse(r) /\ res'[r] \in ConcSubmitBodies
    \/ Wake(r)
    \/ PollResponse(r) /\ res'[r] \in ConcPollBodies

ConcSpec == ConcInit /\ [][ConcNext]_vars

-----------------------------------------------------------------------------
(* Vocabulary of the properties *)

\* the four methods that submit a challenge and wait for its solution
DecodeOps == {"decode", "decodeRecaptchaV2", "decodeRecaptchaV3", "decodeHCaptcha"}

\* the request last sent is a poll (GET res with action=get)
IsPoll(q) == q.action = "res" /\ Get(q.payload, "action") = <<"get">>

\* the byte sources of an image challenge that the caller populated
Populated(o) == {f \in {"base64", "buffer", "path", "url"} : Truthy(Get(o, f))}

\* the call was made with a required field empty or missing
RequiredMissing(r) ==
  /\ options[r] # Dead
  /\ \/ /\ op[r] = "decode"
        /\ ~IsString(key) \/ Populated(options[r]) = {}
     \/ /\ op[r] \in {"decodeRecaptchaV2", "decodeRecaptchaV3"}
        /\ ~Truthy(Get(options[r], "googlekey")) \/ ~Truthy(Get(options[r], "pageurl"))
     \/ /\ op[r] = "decodeHCaptcha"
        /\ ~Truthy(Get(options[r], "sitekey")) \/ ~Truthy(Get(options[r], "pageurl"))

\* t is the second '|'-delimited field of body
SecondField(body, t) ==
  \E i \in 1..Len(body) :
    /\ body[i] = "|"
    /\ \A k \in 1..(i - 1) : body[k] # "|"
    /\ \E j \in i..Len(body) :
         /\ t = SubSeq(body, i + 1, j)
         /\ \A k \in (i + 1)..j : body[k] # "|"
         /\ j = Len(body) \/ body[j + 1] = "|"

\* the run has started a sleep of its polling loop (a timer is due after 0)
Slept(r) == wakeAt[r] > 0

\* what a run that gave up at the deadline returns or throws
TimeoutOutcome == IF throwErrors THEN Threw(CaptchaTimeout) ELSE ReturnedUndefined

-----------------------------------------------------------------------------
(* C1 *)

\* C1: a decode* call whose required field (image byte source, googlekey /
\* sitekey, pageurl, string API key) is empty or missing ends in a validation
\* failure and sends no request, for both settings of throwErrors.
C1_ValidationBeforeNetwork ==
  \A r \in Runs :
    RequiredMissing(r) => pc[r] = "done" /\ nSubmits[r] = 0 /\ nPolls[r] = 0

-----------------------------------------------------------------------------
(* C2 *)

\* C2: when the submission response is a classified remote error, the call
\* logs the message and ends with a falsy result without raising if
\* throwErrors is false, and raises an error with the remote error's message
\* if throwErrors is true.
C2_SubmitErrorOutcome ==
  [][\A r \in Runs :
       (pc[r] = "submitting" /\ pc'[r] # "submitting" /\ IsRemoteError(res'[r])) =>
         IF throwErrors
           THEN pc'[r] = "done" /\ outcome'[r] = Threw(ResponseMessage(res'[r]))
           ELSE /\ warned'[r] = ResponseMessage(res'[r])
                /\ pc'[r] = "done"
                /\ outcome'[r].kind \in {"undefined", "false"}]_vars

-----------------------------------------------------------------------------
(* C3 *)

\* C3: a poll answered with the "not solved yet" marker never raises, whatever
\* throwErrors is; its Captcha has no solution text, the captcha call returns
\* it and the polling loop goes on to its next sleep.
C3_NotReadyIsPending ==
  [][\A r \in Runs :
       (pc[r] = "polling" /\ pc'[r] # "polling" /\ res'[r] = CAPCHA_NOT_READY) =>
         /\ outcome'[r].kind # "throw"
         /\ cap'[r].text = Undefined
         /\ cap'[r].apiResponse = CAPCHA_NOT_READY
         /\ IF op[r] = "captcha"
              THEN pc'[r] = "done" /\ outcome'[r] = ReturnedCaptcha(cap'[r])
              ELSE pc'[r] = "sleeping" /\ outcome'[r] = NoOutcome]_vars

\* a loop poll was answered "not solved yet" with throwErrors set, and the
\* loop sleeps again
C3_Witness ==
  \E r \in Runs :
    /\ throwErrors /\ op[r] = "decode" /\ pc[r] = "sleeping"
    /\ nPolls[r] >= 1 /\ res[r] = CAPCHA_NOT_READY

-----------------------------------------------------------------------------
(* C4 *)

\* C4: a Captcha with a solution returned by a decode* call has as text the
\* second '|'-delimited field of the answer to the last poll of the run, as id
\* the handle that poll asked for, and as apiResponse that answer.
C4_SolutionFromLastPoll ==
  \A r \in Runs :
    (op[r] \in DecodeOps /\ pc[r] = "done" /\ outcome[r].kind = "captcha") =>
      /\ nPolls[r] >= 1 /\ IsPoll(req[r])
      /\ Truthy(outcome[r].cap.text)
      /\ SecondField(res[r], outcome[r].cap.text)
      /\ outcome[r].cap.id = req[r].payload["id"]
      /\ outcome[r].cap.apiResponse = res[r]

\* a decode run returned the solution "B" of the answer "OK|B|C"
C4_Witness ==
  \E r \in Runs :
    /\ op[r] = "decode" /\ pc[r] = "done" /\ outcome[r].kind = "captcha"
    /\ res[r] = OK_B_C /\ outcome[r].cap.text = <<"B">>

-----------------------------------------------------------------------------
(* C5 *)

\* C5: every call ends; a decode* run never issues more polls than
\* timeout / polling; and a run that went to sleep in its polling loop and
\* whose polls were all answered "not solved yet" ends in the timeout outcome.
C5_PendingTerminates ==
  /\ [](\A r \in Runs : op[r] \in DecodeOps => nPolls[r] * polling <= timeout)
  /\ [](\A r \in Runs :
          (op[r] \in DecodeOps /\ pc[r] = "done" /\ Slept(r) /\ allPending[r])
            => outcome[r] = TimeoutOutcome)
  /\ <>(\A r \in Runs : pc[r] \in {"off", "done"})

\* a run whose two polls were both answered "not solved yet" timed out
C5_Witness ==
  \E r \in Runs :
    /\ op[r] \in DecodeOps /\ pc[r] = "done" /\ Slept(r) /\ allPending[r]
    /\ nPolls[r] >= 2 /\ outcome[r] = TimeoutOutcome

-----------------------------------------------------------------------------
(* C6 *)

\* C6 as stated: report returns true if the body is exactly
\* 'OK_REPORT_RECORDED' and false for every other body.
C6_ReportTrueOrFalse ==
  \A r \in Runs :
    (op[r] = "report" /\ pc[r] = "done" /\ res[r] # Rejected) =>
      outcome[r].kind = IF res[r] = OK_REPORT_RECORDED THEN "true" ELSE "false"

\* C6 amended: report returns true if and only if the body is exactly
\* 'OK_REPORT_RECORDED'; for every other body it returns false, except that
\* with throwErrors set a body classified as a remote error makes it raise an
\* error with that error's message.
C6_ReportTrueOnlyOnMarker ==
  \A r \in Runs :
    (op[r] = "report" /\ pc[r] = "done" /\ res[r] # Rejected) =>
      /\ outcome[r].kind = "true" <=> res[r] = OK_REPORT_RECORDED
      /\ res[r] # OK_REPORT_RECORDED =>
           IF throwErrors /\ IsRemoteError(res[r])
             THEN outcome[r] = Threw(ResponseMessage(res[r]))
             ELSE outcome[r].kind = "false"

\* report raised on a classified remote error with throwErrors set
C6_Witness ==
  \E r \in Runs :
    /\ op[r] = "report" /\ pc[r] = "done" /\ throwErrors
    /\ res[r] = ERROR_ZERO_BALANCE /\ outcome[r].kind = "throw"

-----------------------------------------------------------------------------
(* C7 *)

\* C7: a decode* run in which the remote answered a classified error (to the
\* submission or to a poll) never ends in the result of a run that gave up at
\* the deadline, for both settings of throwErrors.
C7_TimeoutDistinctFromRemoteError ==
  \A r \in Runs :
    (op[r] \in DecodeOps /\ pc[r] = "done" /\ sawError[r]) =>
      outcome[r] # TimeoutOutcome

-----------------------------------------------------------------------------
(* C8 *)

\* C8: in a decode* run, once a poll was answered with a classified error
\* other than "not solved yet", or failed in the transport, no further poll
\* is issued, for both settings of throwErrors.
C8_NoPollAfterError ==
  [][\A r \in Runs :
       (/\ op[r] \in DecodeOps /\ IsPoll(req[r]) /\ pc[r] # "polling"
        /\ res[r] = Rejected \/ IsRemoteError(res[r]))
         => nPolls'[r] = nPolls[r]]_vars

-----------------------------------------------------------------------------
(* C9 *)

\* C9: a decode call with none, or with more than one, of base64, buffer, path
\* and url populated fails with a validation error and submits nothing.
C9_ExactlyOneSource ==
  \A r \in Runs :
    (/\ op[r] = "decode" /\ options[r] # Dead
     /\ Cardinality(Populated(options[r])) # 1)
      => pc[r] = "done" /\ nSubmits[r] = 0

-----------------------------------------------------------------------------
(* C10 *)

\* C10: every request handed to the transport carries the client's key in
\* field 'key' and soft_id = 2386, also when the caller's options have fields
\* named 'key' and 'soft_id'.
C10_KeyAndSoftId ==
  \A r \in Runs :
    req[r] # NoRequest =>
      /\ {"key", "soft_id"} \subseteq DOMAIN req[r].payload
      /\ req[r].payload["key"] = key
      /\ req[r].payload["soft_id"] = SOFT_ID

\* decode was called with options holding key and soft_id and has submitted
C10_Witness ==
  \E r \in Runs :
    /\ op[r] = "decode" /\ pc[r] = "submitting" /\ nSubmits[r] = 1
    /\ {"key", "soft_id"} \subseteq DOMAIN options[r]
    /\ "body" \in DOMAIN req[r].payload

-----------------------------------------------------------------------------
(* C11 *)

\* C11: with two calls waiting for a solution on one client, in every
\* interleaving a step of one call leaves the other call's state alone, each
\* call polls the handle its own submission answered, keeps that handle from
\* poll to poll and returns the Captcha of that handle with the solution of
\* the answer to its own poll; no step changes the client's key, timeout,
\* polling or throwErrors.
C11_CallsDoNotInterfere ==
  [][/\ config' = config
     /\ \A r \in Runs :
          /\ pc'[r] = pc[r] =>
                <<op[r], options[r], startedAt[r], cap[r], wakeAt[r], req[r], res[r],
                  nSubmits[r], nPolls[r], outcome[r]>>'
                = <<op[r], options[r], startedAt[r], cap[r], wakeAt[r], req[r], res[r],
                    nSubmits[r], nPolls[r], outcome[r]>>
          /\ pc[r] = "submitting" /\ pc'[r] = "sleeping" =>
                \/ SecondField(res'[r], cap'[r].id)
                \/ cap'[r].id = Undefined /\ \A k \in 1..Len(res'[r]) : res'[r][k] # "|"
          /\ pc[r] = "sleeping" /\ pc'[r] = "polling" =>
                IsPoll(req'[r]) /\ req'[r].payload["id"] = cap[r].id
          /\ pc[r] = "polling" /\ pc'[r] = "sleeping" => cap'[r].id = cap[r].id
          /\ pc[r] = "polling" /\ outcome'[r].kind = "captcha" =>
                /\ outcome'[r].cap.id = cap[r].id
                /\ SecondField(res'[r], outcome'[r].cap.text)]_vars

\* both calls are polling at once, each its own handle
C11_Witness ==
  /\ \A r \in Runs : pc[r] = "polling" /\ nPolls[r] = 2
  /\ req[1].payload["id"] = <<"A">>
  /\ req[2].payload["id"] = <<"B">>

-----------------------------------------------------------------------------
(* C12 *)

\* C12: in a run that waits for a solution, the loop is entered with the
\* handle of a successful submission (a body that is no classified error and
\* has a non-empty second field, which is the handle), every poll queries
\* that handle, and the handle does not change from poll to poll.
C12_PollsUseSubmittedHandle ==
  [][\A r \in Runs :
       op[r] \in DecodeOps =>
         /\ pc[r] = "submitting" /\ pc'[r] = "sleeping" =>
              /\ ~IsRemoteError(res'[r])
              /\ Truthy(cap'[r].id)
              /\ SecondField(res'[r], cap'[r].id)
         /\ pc[r] = "sleeping" /\ pc'[r] = "polling" =>
              /\ Truthy(req'[r].payload["id"])
              /\ req'[r].payload["id"] = cap[r].id
         /\ pc[r] \in {"sleeping", "polling"} /\ pc'[r] \in {"sleeping", "polling"} =>
              cap'[r].id = cap[r].id]_vars

-----------------------------------------------------------------------------
(* C13 *)

\* C13: a run whose submission was answered with a classified error is over
\* (FAILED) without a sleep and without a poll, for both settings of
\* throwErrors: the first sleep and the first poll come only after a
\* submission that succeeded.
C13_PollingOnlyAfterSuccess ==
  \A r \in Runs :
    op[r] \in DecodeOps /\ nSubmits[r] = 1 /\ nPolls[r] = 0 /\ IsRemoteError(res[r]) =>
      /\ pc[r] = "done"
      /\ ~Slept(r)
      /\ outcome[r].kind # "captcha"

-----------------------------------------------------------------------------
(* C14 *)

\* C14: in a run that waits for a solution every poll is issued out of a sleep
\* that is over and after a deadline check that passed (elapsed <= timeout);
\* a sleep that ends with elapsed > timeout ends the run in the timeout
\* outcome (Error 'Captcha timeout' with throwErrors, a warning 'Captcha
\* timeout' and undefined without) with no poll; a run that is over neither
\* polls nor sleeps again.
C14_SleepCheckPoll ==
  [][\A r \in Runs :
       op[r] \in DecodeOps =>
         /\ nPolls'[r] # nPolls[r] =>
              /\ nPolls'[r] = nPolls[r] + 1
              /\ pc[r] = "sleeping"
              /\ clock' >= wakeAt[r]
              /\ clock' - startedAt[r] <= timeout
         /\ pc[r] = "sleeping" /\ pc'[r] # "sleeping" /\ clock' - startedAt[r] > timeout =>
              /\ pc'[r] = "done"
              /\ throwErrors => outcome'[r] = Threw(CaptchaTimeout)
              /\ ~throwErrors =>
                   outcome'[r] = ReturnedUndefined /\ warned'[r] = CaptchaTimeout
              /\ nPolls'[r] = nPolls[r]
              /\ wakeAt'[r] = wakeAt[r]
         /\ pc[r] = "done" =>
              pc'[r] = "done" /\ nPolls'[r] = nPolls[r] /\ wakeAt'[r] = wakeAt[r]]_vars

\* a run polled, slept again and gave up at the deadline with a warning
C14_Witness ==
  \E r \in Runs :
    /\ op[r] \in DecodeOps
    /\ pc[r] = "done"
    /\ nPolls[r] >= 1
    /\ outcome[r] = ReturnedUndefined
    /\ warned[r] = CaptchaTimeout
    /\ clock - startedAt[r] > timeout

-----------------------------------------------------------------------------
(* C15 *)

-----------------------------------------------------------------------------
(* C16 *)

\* C16: for balance, load and stats, which return what _request returns: a
\* body equal to a known error code other than the "not solved yet" marker is
\* raised (throwErrors) or logged with that code's message; otherwise an empty
\* body or a body containing 'ERROR' is raised or logged as 'Unknown 2Captcha
\* error: ' followed by the body; the marker and every other body raise and
\* log nothing; every body that is not raised is returned unchanged.
C16_ValidationOrder ==
  \A r \in Runs :
    pc[r] = "done" /\ op[r] \in {"balance", "load", "stats"} /\ res[r] # Rejected =>
      LET b       == res[r]
          known   == b \in DOMAIN errors /\ b # CAPCHA_NOT_READY
          unknown == b \notin DOMAIN errors /\ (Len(b) = 0 \/ Includes(b, ERROR))
          message == IF known THEN errors[b] ELSE <<"Unknown 2Captcha error: ">> \o b
      IN IF known \/ unknown
           THEN /\ throwErrors => outcome[r] = Threw(message)
                /\ ~throwErrors => warned[r] = message /\ outcome[r] = ReturnedBody(b)
           ELSE warned[r] = NoMessage /\ outcome[r] = ReturnedBody(b)

\* a known code that contains 'ERROR' was raised with the code's own message
C16_Witness ==
  \E r \in Runs :
    /\ pc[r] = "done"
    /\ op[r] = "balance"
    /\ res[r] = ERROR_ZERO_BALANCE
    /\ outcome[r] = Threw(<<"You don't have funds on your account.">>)

-----------------------------------------------------------------------------
(* C17 *)

\* C17: a run that waits for a solution never issues a second submission; once
\* it is past its validation and the loading of its image it has issued
\* exactly one, a POST to 'in', before any poll; every later request is a poll
\* (GET to 'res' with action=get); a run that ends with no submission ended
\* by raising before _upload.
C17_OneSubmissionBeforePolls ==
  \A r \in Runs :
    op[r] \in DecodeOps =>
      /\ nSubmits[r] <= 1
      /\ pc[r] \in {"submitting", "sleeping", "polling"} \/ nPolls[r] >= 1
           \/ res[r] # NoResponse => nSubmits[r] = 1
      /\ pc[r] = "submitting" =>
           req[r].action = "in" /\ req[r].method = "post" /\ nPolls[r] = 0
      /\ nPolls[r] >= 1 => IsPoll(req[r]) /\ req[r].method = "get"
      /\ pc[r] = "done" /\ nSubmits[r] = 0 =>
           outcome[r].kind = "throw" /\ req[r] = NoRequest

\* a run is over after one submission and two polls
C17_Witness ==
  \E r \in Runs :
    op[r] \in DecodeOps /\ pc[r] = "done" /\ nSubmits[r] = 1 /\ nPolls[r] = 2

-----------------------------------------------------------------------------
(* C18 *)

\* C18: a run that waits for a solution returns a Captcha only after at least
\* one poll, and its first poll only after a sleep (at least polling ms after
\* the start); so with polling above timeout no poll is ever issued, and
\* every run that entered the loop ends in the timeout outcome.
C18_NoSolutionWithoutPoll ==
  \A r \in Runs :
    op[r] \in DecodeOps =>
      /\ outcome[r].kind = "captcha" => nPolls[r] >= 1
      /\ nPolls[r] >= 1 => Slept(r) /\ clock - startedAt[r] >= polling
      /\ polling > timeout =>
           /\ nPolls[r] = 0
           /\ pc[r] = "done" /\ Slept(r) => outcome[r] = TimeoutOutcome

\* with polling above timeout an accepted submission ended in the timeout
\* outcome with no poll
C18_Witness ==
  \E r \in Runs :
    /\ polling > timeout
    /\ op[r] \in DecodeOps
    /\ pc[r] = "done"
    /\ res[r] = OK_A
    /\ nPolls[r] = 0
    /\ outcome[r] = TimeoutOutcome

-----------------------------------------------------------------------------
(* C19 *)

\* C19: at the deadline check of a run that waits for a solution, an elapsed
\* time up to and including timeout lets the poll go out, and the run gives
\* up (timeout outcome) only at an elapsed time strictly above timeout; a poll
\* that went out and is answered with a solution makes the run return it,
\* whatever the time of the answer.
C19_StrictDeadline ==
  [][\A r \in Runs :
       op[r] \in DecodeOps =>
         /\ pc[r] = "sleeping" /\ pc'[r] # "sleeping" =>
              /\ clock' - startedAt[r] <= timeout =>
                   pc'[r] = "polling" /\ nPolls'[r] = nPolls[r] + 1
              /\ pc'[r] = "done" =>
                   clock' - startedAt[r] > timeout /\ outcome'[r] = TimeoutOutcome
         /\ pc[r] = "polling" /\ res'[r] \in {OK_A, OK_B_C} =>
              /\ pc'[r] = "done"
              /\ outcome'[r].kind = "captcha"
              /\ outcome'[r].cap.text = (IF res'[r] = OK_A THEN <<"A">> ELSE <<"B">>)]_vars

\* with polling = timeout the only poll went out at an elapsed time of exactly
\* timeout, and its solution was returned after the deadline
C19_Witness ==
  \E r \in Runs :
    /\ polling = timeout
    /\ op[r] = "decode"
    /\ pc[r] = "done"
    /\ nPolls[r] = 1
    /\ outcome[r].kind = "captcha"
    /\ clock - startedAt[r] > timeout

-----------------------------------------------------------------------------
(* C20 *)

\* body has a second '|'-delimited field that is not empty
NonEmptySecondField(body) ==
  \E i, j \in 1..Len(body) : i <= j /\ SecondField(body, SubSeq(body, i, j))

\* C20: the loop of a run that waits for a solution ends in SOLVED (the run
\* returns a Captcha) on the answer to a poll if and only if that answer has a
\* non-empty second '|'-delimited field.
C20_SolvedIffSecondField ==
  [][\A r \in Runs :
       op[r] \in DecodeOps /\ pc[r] = "polling" /\ pc'[r] # "polling"
         /\ res'[r] # Rejected =>
           (pc'[r] = "done" /\ outcome'[r].kind = "captcha"
              <=> NonEmptySecondField(res'[r]))]_vars

\* C20 (amended): the loop ends in SOLVED on the answer to a poll if and only
\* if that answer has a non-empty second '|'-delimited field and is not raised
\* by the validation (a classified error with throwErrors set is raised and
\* ends the run in an error); every other answer that is not raised, among
\* them 'OK' and 'OK|', sends the run to its next sleep with the same handle.
C20_SolvedIffSecondFieldNotRaised ==
  [][\A r \in Runs :
       op[r] \in DecodeOps /\ pc[r] = "polling" /\ pc'[r] # "polling"
         /\ res'[r] # Rejected =>
           LET solved == pc'[r] = "done" /\ outcome'[r].kind = "captcha"
               raised == throwErrors /\ IsRemoteError(res'[r])
           IN /\ solved <=> NonEmptySecondField(res'[r]) /\ ~raised
              /\ raised => pc'[r] = "done" /\ outcome'[r].kind = "throw"
              /\ ~raised /\ ~NonEmptySecondField(res'[r]) =>
                   /\ pc'[r] = "sleeping"
                   /\ cap'[r].id = cap[r].id
                   /\ wakeAt'[r] > wakeAt[r]]_vars

\* a poll answered 'OK|' sent the run to its second sleep
C20_Witness ==
  \E r \in Runs :
    op[r] \in DecodeOps /\ pc[r] = "sleeping" /\ nPolls[r] = 1 /\ res[r] = OK_EMPTY

====
